---- MODULE Spec2Model ----
(***************************************************************************)
(* Knowledge base manager (rag/knowledge_base.py) and retrieval engine     *)
(* (rag/rag_engine.py) of k3s-health-agent.                                *)
(*                                                                         *)
(* Durable storage is the knowledge-base directory: one JSON file per      *)
(* incident / solution, named by id, plus markdown files for best          *)
(* practices and K8s docs.  The vector store is a bag of entries           *)
(* (page_content, metadata): QdrantVectorStore.add_documents gives every   *)
(* chunk a fresh point id, so adding the same document twice yields two    *)
(* entries.                                                                *)
(*                                                                         *)
(* Handlers run on one asyncio event loop and add_incident, add_solution   *)
(* and initialize_knowledge_base contain no await, so one call is in       *)
(* flight at a time; pc records how far it got (the durable write and the  *)
(* index write are separate steps).                                        *)
(***************************************************************************)
EXTENDS Integers, Sequences, FiniteSets, Bags, TLC

VARIABLES
    now,        \* wall clock, in seconds (datetime.now())
    reranker,   \* TRUE iff cohere_api_key is configured (self.reranker is set)
    hash_seed,  \* the key of str hashing, drawn when the interpreter starts
    incidents,  \* incidents/<id>.json : id -> file content
    solutions,  \* solutions/<id>.json : id -> file content
    k8s_docs,   \* names of the k8s_docs/*.md files
    index,      \* self.vector_store: bag of entries
    pc,         \* position of the call in flight, "idle" when none
    call,       \* the call in flight: the dict passed and the record made of it
    ret,        \* outcome of the last completed call, NoRet once it is taken
    calls,      \* add_incident / add_solution / initialize calls made so far
    first,      \* storage and index as the first completed initialize left them
    agent_pc,   \* the global agent of api/main.py: "none", "initializing", "ready"
    enable_rag, \* K3sHealthAgentRAG.enable_rag
    rag_engine, \* K3sHealthAgentRAG.rag_engine: None or the engine
    kb_manager, \* K3sHealthAgentRAG.kb_manager: None or the manager
    chat_history,   \* K3sHealthAgentRAG.chat_history
    inflight,   \* agent calls suspended at await self.agent.ainvoke
    started,    \* agent calls started so far
    rag_calls   \* calls the agent has made to the engine and the manager

agentVars ==
    <<agent_pc, enable_rag, rag_engine, kb_manager, chat_history, inflight, started, rag_calls>>

vars ==
    <<now, reranker, hash_seed, agentVars, incidents, solutions, k8s_docs, index, pc, call,
      ret, calls, first>>

----------------------------------------------------------------------------
(* Bounds of the model *)

MaxClock == 1       \* the clock takes the values 0..MaxClock
MaxCalls == 2       \* add_incident / add_solution / initialize calls in one run
MaxK == 9           \* largest k passed to retrieve / hybrid_retrieve
HashRange == 1000   \* values a colliding hash takes (the program's hash has 2^64)
MaxDocs == 3        \* longest list passed to format_retrieved_context
MaxTextLen == 6     \* longest text handed to the splitter
ChunkSize == 3      \* chunk_size of the splitter, scaled down from 1000
ChunkOverlap == 1   \* chunk_overlap of the splitter, scaled down from 200
MaxAgentCalls == 2  \* calls of the agent's operations in one run

(* Program constants *)

RerankTopN == 5
IncidentBudget == 2
SolutionBudget == 2
BestPracticeBudget == 1

----------------------------------------------------------------------------
(* Values *)

NoId == <<"none", 0>>           \* record.get("id") is None
NoTimestamp == -1               \* record.get("timestamp") is None
NoCall == [op |-> "none"]
NoRet == [op |-> "none"]
NoFirst == [set |-> FALSE]
Corrupt == [corrupt |-> TRUE]   \* a file json.load cannot read
None == "None"                  \* the value of a handle that is not set

(* json.dump(record, f): the text of a JSON object whose members are the  *)
(* keys of the dict, every value written as a JSON string (ids,           *)
(* timestamps and the text fields are str)                                *)
JsonDump(record) == [object |-> [k \in DOMAIN record |-> [string |-> record[k]]]]

(* json.load(f): the dict of the members of the object; Corrupt stands    *)
(* for the error raised on a text that is not JSON                        *)
JsonLoad(content) ==
    IF content = Corrupt THEN Corrupt
    ELSE [k \in DOMAIN content.object |-> content.object[k].string]

SuppliedIds == {NoId, <<"X", 0>>}
Descriptions == {"d1", "d2"}
ProblemTypes == {"p1"}
ProblemPatterns == {"s1", "s2"}
BestPracticeFiles == {<<"bp", 1>>, <<"bp", 2>>}

(* Files an earlier run of the service has left in the directory          *)
PastIncidents ==
    [id \in {<<"OLD", 1>>, <<"OLD", 2>>} |->
        JsonDump([id |-> id, timestamp |-> 0,
                  description |-> IF id[2] = 1 THEN "d1" ELSE "d2"])]
PastSolutions ==
    [id \in {<<"OLD", 1>>, <<"OLD", 2>>} |->
        JsonDump([id |-> id, problem_type |-> "p1",
                  problem_pattern |-> IF id[2] = 1 THEN "s1" ELSE "s2"])]
SampleK8sDocs == {<<"pod_lifecycle", 1>>, <<"resource_management", 2>>}
Queries == {"q1", "q2"}
NoFilter == [key |-> "", value |-> ""]
Filters ==
    {NoFilter} \cup [key : {"doc_type"}, value : {"incident", "solution", "best_practice", "k8s_doc"}]
               \cup [key : {"category"}, value : {"incident", "best_practice", "kubernetes"}]
Categories == {"incident", "solution", "best_practice"}

(* The k callers pass: the small ones and one above the size of the base  *)
Ks == (1..6) \cup {MaxK}

(* The dicts callers pass.  description stands for all the caller's text  *)
(* fields of an incident, problem_pattern for those of a solution.        *)
SuppliedTimestamps == {NoTimestamp, 7}
IncidentInputs ==
    [id : SuppliedIds, timestamp : SuppliedTimestamps, description : Descriptions]
SolutionInputs ==
    [id : SuppliedIds, problem_type : ProblemTypes, problem_pattern : ProblemPatterns]

PersistOutcomes == {"ok", "open_fails", "dump_fails"}

(* POST /upload-document: the doc_type query parameter is any string, its *)
(* default is "general"                                                   *)
UploadDocTypes == {"general", "best_practice"}
UploadFiles == {<<"upload", 1>>}

----------------------------------------------------------------------------
(* Helpers on files and bags *)

(* open(file_path, 'x'): an existing file is kept as it is                *)
WriteFileExclusive(dir, name, content) ==
    IF name \in DOMAIN dir THEN dir
    ELSE [n \in DOMAIN dir \cup {name} |-> IF n = name THEN content ELSE dir[n]]

(* open(file_path, 'w') and json.dump: the file is created or replaced    *)
WriteFile(dir, name, content) ==
    [n \in DOMAIN dir \cup {name} |-> IF n = name THEN content ELSE dir[n]]

Readable(dir) == {n \in DOMAIN dir : dir[n] # Corrupt}

----------------------------------------------------------------------------
(* KnowledgeBaseManager *)

GenerateId(prefix) == <<prefix, now>>

FormatIncident(incident) ==
    [kind |-> "incident", id |-> incident.id, timestamp |-> incident.timestamp,
     description |-> incident.description]

FormatSolution(solution) ==
    [kind |-> "solution", id |-> solution.id, problem_type |-> solution.problem_type,
     problem_pattern |-> solution.problem_pattern]

(* Document built by add_incident / add_solution *)
AddedIncidentDoc(incident) ==
    [page_content |-> FormatIncident(incident),
     metadata |-> [doc_type |-> "incident", incident_id |-> incident.id,
                   timestamp |-> incident.timestamp]]

AddedSolutionDoc(solution) ==
    [page_content |-> FormatSolution(solution),
     metadata |-> [doc_type |-> "solution", solution_id |-> solution.id,
                   problem_type |-> solution.problem_type]]

(* _load_incidents that renders the record without its timestamp          *)
LoadedIncidentDocUndated(name) ==
    [page_content |->
         FormatIncident([JsonLoad(incidents[name]) EXCEPT !.timestamp = NoTimestamp]),
     metadata |-> [doc_type |-> "incident", incident_id |-> JsonLoad(incidents[name]).id,
                   timestamp |-> JsonLoad(incidents[name]).timestamp,
                   source |-> <<"incidents", name>>]]

(* Documents built by _load_incidents / _load_solutions from a file *)
LoadedIncidentDoc(name) ==
    [page_content |-> FormatIncident(JsonLoad(incidents[name])),
     metadata |-> [doc_type |-> "incident", incident_id |-> JsonLoad(incidents[name]).id,
                   timestamp |-> JsonLoad(incidents[name]).timestamp,
                   source |-> <<"incidents", name>>]]

LoadedSolutionDoc(name) ==
    [page_content |-> FormatSolution(JsonLoad(solutions[name])),
     metadata |-> [doc_type |-> "solution", solution_id |-> JsonLoad(solutions[name]).id,
                   problem_type |-> JsonLoad(solutions[name]).problem_type,
                   source |-> <<"solutions", name>>]]

BestPracticeDoc(name) ==
    [page_content |-> [kind |-> "md", name |-> name],
     metadata |-> [doc_type |-> "best_practice", category |-> "best_practice",
                   source |-> <<"best_practices", name>>]]

K8sDoc(name) ==
    [page_content |-> [kind |-> "md", name |-> name],
     metadata |-> [doc_type |-> "k8s_doc", category |-> "kubernetes",
                   source |-> <<"k8s_docs", name>>]]

(* Document upload_document makes of the uploaded file: TextLoader gives  *)
(* the text and the path of the temporary copy as source                  *)
UploadedDoc(doc_type, filename) ==
    [page_content |-> [kind |-> "text", name |-> filename],
     metadata |-> [source |-> <<"tmp", filename>>, doc_type |-> doc_type,
                   filename |-> filename]]

(* RAGEngine.add_documents: every document of the model is shorter than   *)
(* chunk_size, so the splitter yields one chunk per document with the     *)
(* content unchanged; the chunks are appended to the vector store.        *)
add_documents(docs) == index (+) docs

----------------------------------------------------------------------------
(* RAGEngine: retrieval *)

(* The embedding model and the re-ranker are external.  Each is taken as  *)
(* a score that is fixed per (query, content) and separates distinct      *)
(* contents; entries with the same content tie.  Query q1 ranks the texts *)
(* one way and q2 the opposite way; the re-ranker ranks as q1 does.       *)
ContentKey(c) ==
    LET text == CASE c.kind = "incident" -> IF c.description = "d1" THEN 1 ELSE 2
                  [] c.kind = "solution" -> IF c.problem_pattern = "s1" THEN 1 ELSE 2
                  [] OTHER -> c.name[2]
        kind == CASE c.kind = "incident" -> 1 [] c.kind = "solution" -> 2
                  [] c.kind = "text" -> 5
                  [] OTHER -> IF c.name[1] = "bp" THEN 3 ELSE 4
        ident == IF c.kind = "md" THEN 0
                 ELSE CASE c.id[1] = "X" -> 0 [] c.id[1] = "OLD" -> c.id[2]
                        [] OTHER -> 3 + c.id[2]
        ts == IF c.kind = "incident" THEN c.timestamp ELSE 0
    IN  text * 10000 + kind * 1000 + ident * 10 + ts

Score(mode, q, c) ==
    IF mode = "relevance" \/ q = "q1" THEN ContentKey(c) ELSE 0 - ContentKey(c)

(* The n best entries of bag B, best first *)
RECURSIVE TopN(_, _, _, _)
TopN(B, n, mode, q) ==
    IF n <= 0 \/ B = EmptyBag THEN <<>>
    ELSE LET best == CHOOSE e \in BagToSet(B) : \A o \in BagToSet(B) :
                        Score(mode, q, e.page_content) >= Score(mode, q, o.page_content)
         IN  <<best>> \o TopN(B (-) SetToBag({best}), n - 1, mode, q)

Matches(e, filter) ==
    \/ filter = NoFilter
    \/ /\ filter.key \in DOMAIN e.metadata
       /\ e.metadata[filter.key] = filter.value

RECURSIVE BagOfSeq(_)
BagOfSeq(docs) ==
    IF docs = <<>> THEN EmptyBag ELSE SetToBag({Head(docs)}) (+) BagOfSeq(Tail(docs))

Filtered(store, filter) ==
    LET keep == {e \in BagToSet(store) : Matches(e, filter)}
    IN  [e \in keep |-> store[e]]

(* vector_store.as_retriever(search_kwargs={k, filter}).invoke(query)     *)
VectorSearch(store, q, n, filter) == TopN(Filtered(store, filter), n, "similarity", q)

(* CohereRerank(top_n=5).compress_documents                               *)
Rerank(q, docs) == TopN(BagOfSeq(docs), RerankTopN, "relevance", q)

(* retrieve that asks the vector store for k candidates in both cases     *)
retrieve_without_oversampling(store, q, k, filter, fails) ==
    IF fails THEN <<>>
    ELSE LET docs == VectorSearch(store, q, k, filter)
         IN  IF reranker THEN Rerank(q, docs) ELSE docs

(* RAGEngine.retrieve over the vector store `store`; fails: the           *)
(* embedding, the search or the re-rank raises, which is caught and       *)
(* answered with [].                                                      *)
retrieve(store, q, k, filter, fails) ==
    IF fails THEN <<>>
    ELSE LET docs == VectorSearch(store, q, IF reranker THEN k * 2 ELSE k, filter)
         IN  IF reranker THEN Rerank(q, docs) ELSE docs

retrieve_by_category(store, q, category, k, fails) ==
    retrieve(store, q, k, [key |-> "category", value |-> category], fails)

retrieve_similar_incidents(store, q, k, fails) ==
    retrieve(store, q, k, [key |-> "doc_type", value |-> "incident"], fails)

retrieve_solutions(store, q, k, fails) ==
    retrieve(store, q, k, [key |-> "doc_type", value |-> "solution"], fails)

retrieve_best_practices(store, q, k, fails) ==
    retrieve(store, q, k, [key |-> "doc_type", value |-> "best_practice"], fails)

(* hash(doc.page_content): the 64-bit hash of a str, keyed by a value     *)
(* drawn per process.  Equal contents hash equal.  Under key 0 the        *)
(* contents of the model hash to distinct values; under key 1 the hash    *)
(* keeps only the low digits of the content key, so some distinct         *)
(* contents collide (the renderings of an incident and of a solution      *)
(* whose ids agree, for instance).                                        *)
HashSeeds == {0, 1}

Hash(content) ==
    IF hash_seed = 0 THEN ContentKey(content) ELSE ContentKey(content) % HashRange

RECURSIVE Dedup(_, _)
Dedup(docs, seen) ==
    IF docs = <<>> THEN <<>>
    ELSE LET content_hash == Hash(Head(docs).page_content)
         IN  IF content_hash \in seen
             THEN Dedup(Tail(docs), seen)
             ELSE <<Head(docs)>> \o Dedup(Tail(docs), seen \cup {content_hash})

deduplicate_documents(docs) == Dedup(docs, {})

Take(docs, k) == SubSeq(docs, 1, IF k < Len(docs) THEN k ELSE Len(docs))

(* hybrid_retrieve in which a failing sub-query ends the whole call       *)
HybridResultsAborting(store, q, fails) ==
    IF fails[1] \/ fails[2] \/ fails[3] THEN <<>>
    ELSE retrieve_similar_incidents(store, q, IncidentBudget, FALSE)
            \o retrieve_solutions(store, q, SolutionBudget, FALSE)
            \o retrieve_best_practices(store, q, BestPracticeBudget, FALSE)

(* hybrid_retrieve that asks for the solutions first                      *)
HybridResultsSolutionsFirst(store, q, fails) ==
    retrieve_solutions(store, q, SolutionBudget, fails[2])
        \o retrieve_similar_incidents(store, q, IncidentBudget, fails[1])
        \o retrieve_best_practices(store, q, BestPracticeBudget, fails[3])

(* results before deduplication, in the order hybrid_retrieve extends it  *)
HybridResults(store, q, fails) ==
    retrieve_similar_incidents(store, q, IncidentBudget, fails[1])
        \o retrieve_solutions(store, q, SolutionBudget, fails[2])
        \o retrieve_best_practices(store, q, BestPracticeBudget, fails[3])

(* hybrid_retrieve without the deduplication step                         *)
hybrid_retrieve_merged_only(store, q, k, fails) ==
    Take(HybridResults(store, q, fails), k)

hybrid_retrieve(store, q, k, fails) ==
    Take(deduplicate_documents(HybridResults(store, q, fails)), k)

(* KnowledgeBaseManager.search_knowledge_base                             *)
search_knowledge_base(store, q, k, fails) == hybrid_retrieve(store, q, k, fails)

----------------------------------------------------------------------------
(* State after construction of RAGEngine and KnowledgeBaseManager: the    *)
(* directories exist; incidents/ and solutions/ are empty or hold the     *)
(* files of an earlier run; the vector store is empty.  The agent of      *)
(* api/main.py is not constructed yet (agent = None, line 26).            *)

Init ==
    /\ now = 0
    /\ reranker \in BOOLEAN
    /\ hash_seed \in HashSeeds
    /\ \/ incidents = <<>> /\ solutions = <<>>
       \/ incidents = PastIncidents /\ solutions = PastSolutions
    /\ k8s_docs = {}
    /\ index = EmptyBag
    /\ pc = "idle"
    /\ call = NoCall
    /\ ret = NoRet
    /\ calls = 0
    /\ first = NoFirst
    /\ agent_pc = "none"
    /\ enable_rag = FALSE
    /\ rag_engine = None
    /\ kb_manager = None
    /\ chat_history = <<>>
    /\ inflight = {}
    /\ started = 0
    /\ rag_calls = 0

Tick ==
    /\ now < MaxClock
    /\ now' = now + 1
    /\ UNCHANGED <<reranker, hash_seed, agentVars, incidents, solutions, k8s_docs, index, pc, call, ret, calls, first>>

(* add_incident with the index write placed before the durable write     *)
AddIncidentIndexFirst(incident, outcome) ==
    /\ pc = "idle"
    /\ calls < MaxCalls
    /\ calls' = calls + 1
    /\ LET incident_id == IF incident.id # NoId THEN incident.id ELSE GenerateId("INC")
           timestamp == IF incident.timestamp # NoTimestamp THEN incident.timestamp ELSE now
           rec == [incident EXCEPT !.id = incident_id, !.timestamp = timestamp]
       IN  /\ index' = add_documents(SetToBag({AddedIncidentDoc(rec)}))
           /\ IF outcome = "ok"
              THEN /\ incidents' = WriteFile(incidents, incident_id, JsonDump(rec))
                   /\ pc' = "add_incident_index"
                   /\ call' = [given |-> incident.id, input |-> incident, record |-> rec]
                   /\ UNCHANGED ret
              ELSE /\ ret' = [op |-> "add_incident", status |-> "raised", stage |-> "persist",
                              id |-> NoId, given |-> incident.id, input |-> incident,
                             record |-> rec]
                   /\ UNCHANGED <<incidents, pc, call>>
    /\ UNCHANGED <<now, reranker, hash_seed, agentVars, solutions, k8s_docs, first>>

(* add_incident that gives every record a generated id                   *)
AddIncidentPersistFreshId(incident, outcome) ==
    /\ pc = "idle"
    /\ calls < MaxCalls
    /\ calls' = calls + 1
    /\ LET incident_id == GenerateId("INC")
           timestamp == IF incident.timestamp # NoTimestamp THEN incident.timestamp ELSE now
           rec == [incident EXCEPT !.id = incident_id, !.timestamp = timestamp]
       IN  IF outcome = "ok"
           THEN /\ incidents' = WriteFile(incidents, incident_id, JsonDump(rec))
                /\ pc' = "add_incident_index"
                /\ call' = [given |-> incident.id, input |-> incident, record |-> rec]
                /\ UNCHANGED ret
           ELSE /\ ret' = [op |-> "add_incident", status |-> "raised", stage |-> "persist",
                           id |-> NoId, given |-> incident.id, input |-> incident,
                           record |-> rec]
                /\ UNCHANGED <<incidents, pc, call>>
    /\ UNCHANGED <<now, reranker, hash_seed, agentVars, solutions, k8s_docs, index, first>>

(* add_incident, lines 276-283: id and timestamp, then the durable write. *)
(* open() failing leaves the directory as it was; json.dump failing       *)
(* leaves a truncated file.  Either exception is logged and re-raised.    *)
AddIncidentPersist(incident, outcome) ==
    /\ pc = "idle"
    /\ calls < MaxCalls
    /\ calls' = calls + 1
    /\ LET incident_id == IF incident.id # NoId THEN incident.id ELSE GenerateId("INC")
           timestamp == IF incident.timestamp # NoTimestamp THEN incident.timestamp ELSE now
           rec == [incident EXCEPT !.id = incident_id, !.timestamp = timestamp]
       IN  CASE outcome = "ok" ->
                  /\ incidents' = WriteFile(incidents, incident_id, JsonDump(rec))
                  /\ pc' = "add_incident_index"
                  /\ call' = [given |-> incident.id, input |-> incident, record |-> rec]
                  /\ UNCHANGED ret
             [] outcome = "open_fails" ->
                  /\ ret' = [op |-> "add_incident", status |-> "raised", stage |-> "persist",
                             id |-> NoId, given |-> incident.id, input |-> incident,
                             record |-> rec]
                  /\ UNCHANGED <<incidents, pc, call>>
             [] outcome = "dump_fails" ->
                  /\ incidents' = WriteFile(incidents, incident_id, Corrupt)
                  /\ ret' = [op |-> "add_incident", status |-> "raised", stage |-> "persist",
                             id |-> NoId, given |-> incident.id, input |-> incident,
                             record |-> rec]
                  /\ UNCHANGED <<pc, call>>
    /\ UNCHANGED <<now, reranker, hash_seed, agentVars, solutions, k8s_docs, index, first>>

(* add_incident that returns the id without the index write              *)
AddIncidentIndexSkipped(index_fails) ==
    /\ pc = "add_incident_index"
    /\ ret' = [op |-> "add_incident", status |-> "returned", stage |-> "done",
               id |-> call.record.id, given |-> call.given, input |-> call.input,
               record |-> call.record]
    /\ pc' = "idle"
    /\ call' = NoCall
    /\ UNCHANGED <<now, reranker, hash_seed, agentVars, incidents, solutions, k8s_docs, index, calls, first>>

(* add_incident, lines 285-304: render, index, return the id; a failure   *)
(* of add_documents is logged and re-raised.                              *)
AddIncidentIndex(index_fails) ==
    /\ pc = "add_incident_index"
    /\ IF index_fails
       THEN /\ ret' = [op |-> "add_incident", status |-> "raised", stage |-> "index",
                       id |-> NoId, given |-> call.given, input |-> call.input,
                       record |-> call.record]
            /\ UNCHANGED index
       ELSE /\ index' = add_documents(SetToBag({AddedIncidentDoc(call.record)}))
            /\ ret' = [op |-> "add_incident", status |-> "returned", stage |-> "done",
                       id |-> call.record.id, given |-> call.given, input |-> call.input,
                       record |-> call.record]
    /\ pc' = "idle"
    /\ call' = NoCall
    /\ UNCHANGED <<now, reranker, hash_seed, agentVars, incidents, solutions, k8s_docs, calls, first>>

(* add_solution with the index write placed before the durable write     *)
AddSolutionIndexFirst(solution, outcome) ==
    /\ pc = "idle"
    /\ calls < MaxCalls
    /\ calls' = calls + 1
    /\ LET solution_id == IF solution.id # NoId THEN solution.id ELSE GenerateId("SOL")
           rec == [solution EXCEPT !.id = solution_id]
       IN  /\ index' = add_documents(SetToBag({AddedSolutionDoc(rec)}))
           /\ IF outcome = "ok"
              THEN /\ solutions' = WriteFile(solutions, solution_id, JsonDump(rec))
                   /\ pc' = "add_solution_index"
                   /\ call' = [given |-> solution.id, input |-> solution, record |-> rec]
                   /\ UNCHANGED ret
              ELSE /\ ret' = [op |-> "add_solution", status |-> "raised", stage |-> "persist",
                              id |-> NoId, given |-> solution.id, input |-> solution,
                             record |-> rec]
                   /\ UNCHANGED <<solutions, pc, call>>
    /\ UNCHANGED <<now, reranker, hash_seed, agentVars, incidents, k8s_docs, first>>

(* add_solution, lines 309-315 *)
AddSolutionPersist(solution, outcome) ==
    /\ pc = "idle"
    /\ calls < MaxCalls
    /\ calls' = calls + 1
    /\ LET solution_id == IF solution.id # NoId THEN solution.id ELSE GenerateId("SOL")
           rec == [solution EXCEPT !.id = solution_id]
       IN  CASE outcome = "ok" ->
                  /\ solutions' = WriteFile(solutions, solution_id, JsonDump(rec))
                  /\ pc' = "add_solution_index"
                  /\ call' = [given |-> solution.id, input |-> solution, record |-> rec]
                  /\ UNCHANGED ret
             [] outcome = "open_fails" ->
                  /\ ret' = [op |-> "add_solution", status |-> "raised", stage |-> "persist",
                             id |-> NoId, given |-> solution.id, input |-> solution,
                             record |-> rec]
                  /\ UNCHANGED <<solutions, pc, call>>
             [] outcome = "dump_fails" ->
                  /\ solutions' = WriteFile(solutions, solution_id, Corrupt)
                  /\ ret' = [op |-> "add_solution", status |-> "raised", stage |-> "persist",
                             id |-> NoId, given |-> solution.id, input |-> solution,
                             record |-> rec]
                  /\ UNCHANGED <<pc, call>>
    /\ UNCHANGED <<now, reranker, hash_seed, agentVars, incidents, k8s_docs, index, first>>

(* add_solution, lines 317-335 *)
AddSolutionIndex(index_fails) ==
    /\ pc = "add_solution_index"
    /\ IF index_fails
       THEN /\ ret' = [op |-> "add_solution", status |-> "raised", stage |-> "index",
                       id |-> NoId, given |-> call.given, input |-> call.input,
                       record |-> call.record]
            /\ UNCHANGED index
       ELSE /\ index' = add_documents(SetToBag({AddedSolutionDoc(call.record)}))
            /\ ret' = [op |-> "add_solution", status |-> "returned", stage |-> "done",
                       id |-> call.record.id, given |-> call.given, input |-> call.input,
                       record |-> call.record]
    /\ pc' = "idle"
    /\ call' = NoCall
    /\ UNCHANGED <<now, reranker, hash_seed, agentVars, incidents, solutions, k8s_docs, calls, first>>

(* _load_incidents that takes only the files an earlier run left          *)
IncidentDocsOfPastRun ==
    {LoadedIncidentDoc(n) : n \in Readable(incidents) \cap DOMAIN PastIncidents}

(* What one initialize_knowledge_base indexes from the files as they are  *)
IncidentDocs == {LoadedIncidentDoc(n) : n \in Readable(incidents)}
SolutionDocs == {LoadedSolutionDoc(n) : n \in Readable(solutions)}
BestPracticeDocs == {BestPracticeDoc(n) : n \in BestPracticeFiles}

(* initialize_knowledge_base -> _load_k8s_docs: sample docs are created   *)
(* when the directory holds none; a failure of the loader or of           *)
(* add_documents is caught and logged (lines 85-86).                      *)
LoadK8sDocs(index_fails) ==
    /\ pc = "idle"
    /\ calls < MaxCalls
    /\ calls' = calls + 1
    /\ LET files == IF k8s_docs = {} THEN SampleK8sDocs ELSE k8s_docs
       IN  /\ k8s_docs' = files
           /\ index' = IF index_fails THEN index
                       ELSE add_documents(SetToBag({K8sDoc(n) : n \in files}))
    /\ pc' = "load_best_practices"
    /\ UNCHANGED <<now, reranker, hash_seed, agentVars, incidents, solutions, call, ret, first>>

(* _load_best_practices: failures are caught and logged (lines 160-161)   *)
LoadBestPractices(index_fails) ==
    /\ pc = "load_best_practices"
    /\ index' = IF index_fails THEN index ELSE add_documents(SetToBag(BestPracticeDocs))
    /\ pc' = "load_incidents"
    /\ UNCHANGED <<now, reranker, hash_seed, agentVars, incidents, solutions, k8s_docs, call, ret, calls, first>>

(* _load_incidents: a file that cannot be read is skipped (lines 190-191);*)
(* add_documents is called when some file was read and is outside the     *)
(* try, so its failure leaves initialize_knowledge_base.                   *)
LoadIncidents(index_fails) ==
    /\ pc = "load_incidents"
    /\ index_fails => IncidentDocs # {}
    /\ IF index_fails
       THEN /\ pc' = "idle"
            /\ ret' = [op |-> "initialize", status |-> "raised"]
            /\ UNCHANGED index
       ELSE /\ index' = add_documents(SetToBag(IncidentDocs))
            /\ pc' = "load_solutions"
            /\ UNCHANGED ret
    /\ UNCHANGED <<now, reranker, hash_seed, agentVars, incidents, solutions, k8s_docs, call, calls, first>>

(* _load_solutions, then initialize_knowledge_base returns                *)
LoadSolutions(index_fails) ==
    /\ pc = "load_solutions"
    /\ index_fails => SolutionDocs # {}
    /\ IF index_fails
       THEN /\ ret' = [op |-> "initialize", status |-> "raised"]
            /\ UNCHANGED <<index, first>>
       ELSE /\ index' = add_documents(SetToBag(SolutionDocs))
            /\ ret' = [op |-> "initialize", status |-> "returned"]
            /\ first' = IF first = NoFirst
                        THEN [set |-> TRUE, index |-> index', incidents |-> incidents,
                              solutions |-> solutions]
                        ELSE first
    /\ pc' = "idle"
    /\ UNCHANGED <<now, reranker, hash_seed, agentVars, incidents, solutions, k8s_docs, call, calls>>

(* upload_document (api/knowledge_routes.py): the file is loaded, tagged   *)
(* with the doc_type given and handed to rag_engine.add_documents; any    *)
(* failure becomes an HTTP 500.                                           *)
UploadDocument(doc_type, filename, fails) ==
    /\ pc = "idle"
    /\ calls < MaxCalls
    /\ calls' = calls + 1
    /\ IF fails
       THEN /\ ret' = [op |-> "upload_document", status |-> "raised"]
            /\ UNCHANGED index
       ELSE /\ index' = add_documents(SetToBag({UploadedDoc(doc_type, filename)}))
            /\ ret' = [op |-> "upload_document", status |-> "returned"]
    /\ UNCHANGED <<now, reranker, hash_seed, agentVars, incidents, solutions, k8s_docs, pc, call, first>>

(* Calls of the retrieval operations; they read the vector store only.   *)
(* The result is in ret until the caller has taken it (Respond).          *)
Retrieve(q, k, filter, fails) ==
    /\ pc = "idle"
    /\ ret' = [op |-> "retrieve", status |-> "returned", query |-> q, k |-> k,
               filter |-> filter, fails |-> fails,
               docs |-> retrieve(index, q, k, filter, fails)]
    /\ pc' = "retrieved"
    /\ UNCHANGED <<now, reranker, hash_seed, agentVars, incidents, solutions, k8s_docs, index, call, calls, first>>

RetrieveByCategory(q, category, k, fails) ==
    /\ pc = "idle"
    /\ ret' = [op |-> "retrieve_by_category", status |-> "returned", query |-> q, k |-> k,
               category |-> category, fails |-> fails,
               docs |-> retrieve_by_category(index, q, category, k, fails)]
    /\ pc' = "retrieved"
    /\ UNCHANGED <<now, reranker, hash_seed, agentVars, incidents, solutions, k8s_docs, index, call, calls, first>>

RetrieveSimilarIncidents(q, k, fails) ==
    /\ pc = "idle"
    /\ ret' = [op |-> "retrieve_similar_incidents", status |-> "returned", query |-> q,
               k |-> k, fails |-> fails,
               docs |-> retrieve_similar_incidents(index, q, k, fails)]
    /\ pc' = "retrieved"
    /\ UNCHANGED <<now, reranker, hash_seed, agentVars, incidents, solutions, k8s_docs, index, call, calls, first>>

(* retrieve_solutions whose retrieve lets the exception through           *)
RetrieveSolutionsPropagating(q, k, fails) ==
    /\ pc = "idle"
    /\ ret' = [op |-> "retrieve_solutions", status |-> IF fails THEN "raised" ELSE "returned",
               query |-> q, k |-> k, fails |-> fails,
               docs |-> retrieve_solutions(index, q, k, fails)]
    /\ pc' = "retrieved"
    /\ UNCHANGED <<now, reranker, hash_seed, agentVars, incidents, solutions, k8s_docs, index, call, calls, first>>

RetrieveSolutions(q, k, fails) ==
    /\ pc = "idle"
    /\ ret' = [op |-> "retrieve_solutions", status |-> "returned", query |-> q,
               k |-> k, fails |-> fails,
               docs |-> retrieve_solutions(index, q, k, fails)]
    /\ pc' = "retrieved"
    /\ UNCHANGED <<now, reranker, hash_seed, agentVars, incidents, solutions, k8s_docs, index, call, calls, first>>

RetrieveBestPractices(q, k, fails) ==
    /\ pc = "idle"
    /\ ret' = [op |-> "retrieve_best_practices", status |-> "returned", query |-> q,
               k |-> k, fails |-> fails,
               docs |-> retrieve_best_practices(index, q, k, fails)]
    /\ pc' = "retrieved"
    /\ UNCHANGED <<now, reranker, hash_seed, agentVars, incidents, solutions, k8s_docs, index, call, calls, first>>

HybridRetrieve(q, k, fails) ==
    /\ pc = "idle"
    /\ ret' = [op |-> "hybrid_retrieve", status |-> "returned", query |-> q, k |-> k,
               fails |-> fails, docs |-> search_knowledge_base(index, q, k, fails)]
    /\ pc' = "retrieved"
    /\ UNCHANGED <<now, reranker, hash_seed, agentVars, incidents, solutions, k8s_docs, index, call, calls, first>>

Respond ==
    /\ pc = "retrieved"
    /\ pc' = "idle"
    /\ ret' = NoRet
    /\ UNCHANGED <<now, reranker, hash_seed, agentVars, incidents, solutions, k8s_docs, index, call, calls, first>>

Initialize ==
    \/ \E index_fails \in BOOLEAN : LoadK8sDocs(index_fails)
    \/ \E index_fails \in BOOLEAN : LoadBestPractices(index_fails)
    \/ \E index_fails \in BOOLEAN : LoadIncidents(index_fails)
    \/ \E index_fails \in BOOLEAN : LoadSolutions(index_fails)

(* The knowledge base manager: records are added and the base is loaded   *)
Next ==
    \/ Tick
    \/ \E incident \in IncidentInputs, outcome \in PersistOutcomes :
          AddIncidentPersist(incident, outcome)
    \/ \E index_fails \in BOOLEAN : AddIncidentIndex(index_fails)
    \/ \E solution \in SolutionInputs, outcome \in PersistOutcomes :
          AddSolutionPersist(solution, outcome)
    \/ \E index_fails \in BOOLEAN : AddSolutionIndex(index_fails)
    \/ Initialize
    \/ \E doc_type \in UploadDocTypes, filename \in UploadFiles, fails \in BOOLEAN :
          UploadDocument(doc_type, filename, fails)

(* The manager's operations do not use the re-ranker                      *)
InitManager == Init /\ ~reranker

Spec == InitManager /\ [][Next]_vars

(* The retrieval engine over a base that is loaded and gets new records   *)
(* while the stores work: the callers of add_* leave id and timestamp to  *)
(* the manager (api/knowledge_routes.py, _record_successful_fix).         *)
NextRetrieve ==
    \/ \E description \in Descriptions :
          AddIncidentPersist([id |-> NoId, timestamp |-> NoTimestamp,
                              description |-> description], "ok")
    \/ AddIncidentIndex(FALSE)
    \/ \E problem_pattern \in ProblemPatterns :
          AddSolutionPersist([id |-> NoId, problem_type |-> "p1",
                              problem_pattern |-> problem_pattern], "ok")
    \/ AddSolutionIndex(FALSE)
    \/ LoadK8sDocs(FALSE)
    \/ LoadBestPractices(FALSE)
    \/ LoadIncidents(FALSE)
    \/ LoadSolutions(FALSE)
    \/ \E q \in Queries, k \in Ks, filter \in Filters, fails \in BOOLEAN :
          Retrieve(q, k, filter, fails)
    \/ \E q \in Queries, category \in Categories, k \in Ks, fails \in BOOLEAN :
          RetrieveByCategory(q, category, k, fails)
    \/ \E q \in Queries, k \in Ks, fails \in BOOLEAN :
          RetrieveSimilarIncidents(q, k, fails)
    \/ \E q \in Queries, k \in Ks, fails \in BOOLEAN :
          RetrieveSolutions(q, k, fails)
    \/ \E q \in Queries, k \in Ks, fails \in BOOLEAN :
          RetrieveBestPractices(q, k, fails)
    \/ \E q \in Queries, k \in {0} \cup Ks, fails \in [1..3 -> BOOLEAN] :
          HybridRetrieve(q, k, fails)
    \/ Respond

SpecRetrieve == Init /\ [][NextRetrieve]_vars

----------------------------------------------------------------------------
(* RAGEngine.format_retrieved_context.  A str is the sequence of its      *)
(* pieces: [lit |-> s] for literal text (a doc_type is text), [num |-> i] *)
(* for a number, [source |-> x] and [content |-> c] for a source and a    *)
(* page_content put into the text; "" is the empty sequence.              *)

(* the sentence of line 199: no related historical cases or documents     *)
(* were found                                                             *)
NoResultsSentinel == <<[lit |-> "no related historical cases or documents found."]>>

MetadataGet(metadata, key, piece) ==
    IF key \in DOMAIN metadata THEN [m \in {piece} |-> metadata[key]]
    ELSE [lit |-> "unknown"]

(* context_parts numbered by enumerate(docs) without its start argument   *)
ContextPartFromZero(i, doc) ==
    <<[lit |-> "### reference "], [num |-> i - 1], [lit |-> " ("],
      MetadataGet(doc.metadata, "doc_type", "lit"), [lit |-> ")\n"],
      [lit |-> "source: "], MetadataGet(doc.metadata, "source", "source"), [lit |-> "\n"],
      [lit |-> "content:\n"], [content |-> doc.page_content], [lit |-> "\n"]>>

(* one element of context_parts (lines 207-211)                           *)
ContextPart(i, doc) ==
    <<[lit |-> "### reference "], [num |-> i], [lit |-> " ("],
      MetadataGet(doc.metadata, "doc_type", "lit"), [lit |-> ")\n"],
      [lit |-> "source: "], MetadataGet(doc.metadata, "source", "source"), [lit |-> "\n"],
      [lit |-> "content:\n"], [content |-> doc.page_content], [lit |-> "\n"]>>

(* "\n".join(parts)                                                       *)
RECURSIVE JoinLines(_)
JoinLines(parts) ==
    IF parts = <<>> THEN <<>>
    ELSE IF Len(parts) = 1 THEN parts[1]
    ELSE parts[1] \o <<[lit |-> "\n"]>> \o JoinLines(Tail(parts))

(* format_retrieved_context without the test for an empty list            *)
format_retrieved_context_joined_only(docs) ==
    JoinLines([i \in 1..Len(docs) |-> ContextPart(i, docs[i])])

format_retrieved_context(docs) ==
    IF docs = <<>> THEN NoResultsSentinel
    ELSE JoinLines([i \in 1..Len(docs) |-> ContextPart(i, docs[i])])

(* Documents handed to the formatter: as initialize, add_incident and     *)
(* upload_document index them, and one that has neither doc_type nor      *)
(* source in its metadata                                                 *)
FormatDocs ==
    {BestPracticeDoc(<<"bp", 1>>),
     AddedIncidentDoc([id |-> <<"INC", 0>>, timestamp |-> 0, description |-> "d1"]),
     UploadedDoc("general", <<"upload", 1>>),
     [page_content |-> [kind |-> "text", name |-> <<"upload", 2>>],
      metadata |-> [filename |-> <<"upload", 2>>]]}

RECURSIVE SeqsUpTo(_, _)
SeqsUpTo(S, n) ==
    IF n = 0 THEN {<<>>}
    ELSE SeqsUpTo(S, n - 1) \cup {Append(t, x) : t \in SeqsUpTo(S, n - 1), x \in S}

FormatRetrievedContext(docs) ==
    /\ pc = "idle"
    /\ ret' = [op |-> "format_retrieved_context", status |-> "returned", docs |-> docs,
               context |-> format_retrieved_context(docs)]
    /\ pc' = "retrieved"
    /\ UNCHANGED <<now, reranker, hash_seed, agentVars, incidents, solutions, k8s_docs, index, call, calls, first>>

NextFormat ==
    \/ \E docs \in SeqsUpTo(FormatDocs, MaxDocs) : FormatRetrievedContext(docs)
    \/ Respond

SpecFormat == Init /\ [][NextFormat]_vars

----------------------------------------------------------------------------
(* RAGEngine.text_splitter: RecursiveCharacterTextSplitter(chunk_size,    *)
(* chunk_overlap, length_function=len, separators) with its defaults      *)
(* keep_separator=True and strip_whitespace=True.  A text is the sequence *)
(* of its characters.  The separator list is scaled to a line break, a    *)
(* blank and the empty separator.                                         *)

Chars == {"a", "b", " ", "\n"}
Whitespace == {" ", "\n"}
Separators == <<"\n", " ", "">>

(* str.strip()                                                            *)
RECURSIVE LStrip(_)
LStrip(text) ==
    IF text # <<>> /\ Head(text) \in Whitespace THEN LStrip(Tail(text)) ELSE text

RECURSIVE RStrip(_)
RStrip(text) ==
    IF text # <<>> /\ text[Len(text)] \in Whitespace
    THEN RStrip(SubSeq(text, 1, Len(text) - 1)) ELSE text

Strip(text) == RStrip(LStrip(text))

(* _split_text_with_regex with keep_separator: the text is cut in front   *)
(* of every occurrence of the separator; the empty separator cuts it into *)
(* its characters; empty pieces are dropped                               *)
RECURSIVE SplitTextWithRegex(_, _)
SplitTextWithRegex(text, separator) ==
    IF text = <<>> THEN <<>>
    ELSE IF separator = "" THEN <<<<Head(text)>>>> \o SplitTextWithRegex(Tail(text), separator)
    ELSE LET next == {i \in 2..Len(text) : text[i] = separator}
             cut == IF next = {} THEN Len(text) + 1
                    ELSE CHOOSE i \in next : \A j \in next : i <= j
         IN  <<SubSeq(text, 1, cut - 1)>>
                \o SplitTextWithRegex(SubSeq(text, cut, Len(text)), separator)

RECURSIVE Concat(_)
Concat(pieces) == IF pieces = <<>> THEN <<>> ELSE Head(pieces) \o Concat(Tail(pieces))

(* _join_docs with the separator "": None (here no chunk) for a text that *)
(* is empty once stripped                                                 *)
JoinDocs(current_doc) ==
    LET text == Strip(Concat(current_doc))
    IN  IF text = <<>> THEN <<>> ELSE <<text>>

(* the while loop of _merge_splits: pieces leave the front of current_doc *)
(* until what is left fits the overlap and leaves room for the next piece *)
RECURSIVE DropForOverlap(_, _, _)
DropForOverlap(current_doc, total, len) ==
    IF total > ChunkOverlap \/ (total + len > ChunkSize /\ total > 0)
    THEN DropForOverlap(Tail(current_doc), total - Len(Head(current_doc)), len)
    ELSE [current_doc |-> current_doc, total |-> total]

(* _merge_splits(splits, "")                                              *)
RECURSIVE MergeSplits(_, _, _)
MergeSplits(splits, current_doc, total) ==
    IF splits = <<>> THEN JoinDocs(current_doc)
    ELSE LET d == Head(splits)
         IN  IF total + Len(d) > ChunkSize /\ current_doc # <<>>
             THEN LET kept == DropForOverlap(current_doc, total, Len(d))
                  IN  JoinDocs(current_doc)
                        \o MergeSplits(Tail(splits), Append(kept.current_doc, d),
                                       kept.total + Len(d))
             ELSE MergeSplits(Tail(splits), Append(current_doc, d), total + Len(d))

(* RecursiveCharacterTextSplitter._split_text: the first separator of the *)
(* list that occurs in the text cuts it; pieces shorter than chunk_size   *)
(* are merged into chunks, a longer piece is split again with the         *)
(* separators that remain                                                 *)
RECURSIVE SplitText(_, _)
RECURSIVE SplitLoop(_, _, _)
SplitLoop(splits, good_splits, new_separators) ==
    LET merged == IF good_splits = <<>> THEN <<>> ELSE MergeSplits(good_splits, <<>>, 0)
    IN  IF splits = <<>> THEN merged
        ELSE IF Len(Head(splits)) < ChunkSize
        THEN SplitLoop(Tail(splits), Append(good_splits, Head(splits)), new_separators)
        ELSE merged
                \o (IF new_separators = <<>> THEN <<Head(splits)>>
                    ELSE SplitText(Head(splits), new_separators))
                \o SplitLoop(Tail(splits), <<>>, new_separators)

SplitText(text, separators) ==
    LET found == {i \in 1..Len(separators) :
                     separators[i] = "" \/ \E p \in 1..Len(text) : text[p] = separators[i]}
        first_found == CHOOSE i \in found : \A j \in found : i <= j
        separator == separators[first_found]
        new_separators == IF separator = "" THEN <<>>
                          ELSE SubSeq(separators, first_found + 1, Len(separators))
    IN  SplitLoop(SplitTextWithRegex(text, separator), <<>>, new_separators)

split_text(text) == SplitText(text, Separators)

(* TextSplitter.split_documents: the chunks of every document, each with  *)
(* a copy of the metadata of its document                                 *)
RECURSIVE split_documents(_)
split_documents(documents) ==
    IF documents = <<>> THEN <<>>
    ELSE LET chunks == split_text(Head(documents).page_content)
         IN  [i \in 1..Len(chunks) |->
                 [page_content |-> chunks[i], metadata |-> Head(documents).metadata]]
               \o split_documents(Tail(documents))

(* Texts handed to the splitter, as an uploaded file may hold them        *)
Texts == SeqsUpTo(Chars, MaxTextLen)

(* add_documents, line 87: the documents are split                        *)
SplitDocuments(documents) ==
    /\ pc = "idle"
    /\ ret' = [op |-> "split_documents", status |-> "returned", docs |-> documents,
               chunks |-> split_documents(documents)]
    /\ pc' = "retrieved"
    /\ UNCHANGED <<now, reranker, hash_seed, agentVars, incidents, solutions, k8s_docs, index, call, calls, first>>

NextSplit ==
    \/ \E text \in Texts, doc_type \in UploadDocTypes :
          SplitDocuments(<<[page_content |-> text, metadata |-> [doc_type |-> doc_type]]>>)
    \/ SplitDocuments(<<>>)
    \/ Respond

InitSplit == Init /\ ~reranker /\ hash_seed = 0 /\ incidents = <<>>

SpecSplit == InitSplit /\ [][NextSplit]_vars

----------------------------------------------------------------------------
(* K3sHealthAgentRAG (agent/agent_core.py).  The handlers are coroutines   *)
(* on one event loop: a call runs without interruption up to               *)
(* await self.agent.ainvoke, where it is suspended and other calls run,    *)
(* and again without interruption from the return of ainvoke to its own    *)
(* return (_record_successful_fix and add_incident do not suspend).        *)

HealthCheckQuery == "q1"    \* the fixed query of analyze_cluster_health
NoContext == <<>>           \* full_input of the basic mode: no retrieved knowledge
NoStatus == "absent"        \* result.get("status") is None

(* The dict ainvoke returns is the state of the graph; the state of        *)
(* create_agent has the key messages, and a status key is taken to be      *)
(* there or not.                                                           *)
ResultStatuses == {NoStatus, "success"}

HumanMessage(id, op, context) ==
    [role |-> "human", call |-> id, op |-> op, context |-> context]
AIMessage(id) == [role |-> "ai", call |-> id]

(* The call that is suspended at ainvoke: its arguments and full_input     *)
Suspended(id, op, args, full_input) ==
    [id |-> id, op |-> op, args |-> args, full_input |-> full_input]

(* __init__, lines 39-63, up to the call of initialize_knowledge_base.     *)
(* enable, has_config: the arguments enable_rag and rag_config (None or    *)
(* empty is no config); engine_ok, manager_ok: whether RAGEngine(...) and  *)
(* KnowledgeBaseManager(...) return or raise.                              *)
Construct(enable, has_config, engine_ok, manager_ok) ==
    /\ agent_pc = "none"
    /\ pc = "idle"
    /\ IF enable /\ has_config
       THEN IF engine_ok /\ manager_ok
            THEN /\ enable_rag' = TRUE
                 /\ rag_engine' = "RAGEngine"
                 /\ kb_manager' = "KnowledgeBaseManager"
                 /\ agent_pc' = "initializing"
            ELSE /\ enable_rag' = FALSE
                 /\ rag_engine' = None
                 /\ kb_manager' = None
                 /\ agent_pc' = "ready"
       ELSE /\ enable_rag' = enable
            /\ rag_engine' = None
            /\ kb_manager' = None
            /\ agent_pc' = "ready"
    /\ chat_history' = <<>>
    /\ UNCHANGED <<now, reranker, hash_seed, inflight, started, rag_calls, incidents,
                   solutions, k8s_docs, index, pc, call, ret, calls, first>>

(* __init__, line 55: the steps of initialize_knowledge_base.  A failure   *)
(* in the first two categories is caught inside them and is left out.     *)
ConstructInitialize ==
    /\ agent_pc = "initializing"
    /\ ret.op # "initialize"
    /\ \/ LoadK8sDocs(FALSE)
       \/ LoadBestPractices(FALSE)
       \/ \E index_fails \in BOOLEAN : LoadIncidents(index_fails)
       \/ \E index_fails \in BOOLEAN : LoadSolutions(index_fails)

(* __init__, lines 56-63: initialize_knowledge_base has returned or        *)
(* raised; the except clause turns RAG off                                 *)
ConstructDone ==
    /\ agent_pc = "initializing"
    /\ pc = "idle"
    /\ ret.op = "initialize"
    /\ IF ret.status = "raised"
       THEN /\ enable_rag' = FALSE
            /\ rag_engine' = None
            /\ kb_manager' = None
       ELSE UNCHANGED <<enable_rag, rag_engine, kb_manager>>
    /\ agent_pc' = "ready"
    /\ ret' = NoRet
    /\ UNCHANGED <<now, reranker, hash_seed, chat_history, inflight, started, rag_calls,
                   incidents, solutions, k8s_docs, index, pc, call, calls, first>>

(* analyze_cluster_health, lines 112-157: retrieval in RAG mode, the       *)
(* input, then the call is suspended at ainvoke                            *)
AnalyzeClusterHealthStart(fails) ==
    /\ agent_pc = "ready"
    /\ started < MaxAgentCalls
    /\ started' = started + 1
    /\ LET rag == enable_rag /\ rag_engine # None
           best_practices == retrieve_best_practices(index, HealthCheckQuery, 3, fails)
           full_input ==
               HumanMessage(started + 1, "analyze_cluster_health",
                            IF rag THEN format_retrieved_context(best_practices)
                            ELSE NoContext)
       IN  /\ rag_calls' = IF rag THEN rag_calls + 1 ELSE rag_calls
           /\ inflight' = inflight \cup
                 {Suspended(started + 1, "analyze_cluster_health", <<>>, full_input)}
    /\ UNCHANGED <<now, reranker, hash_seed, agent_pc, enable_rag, rag_engine, kb_manager,
                   chat_history, incidents, solutions, k8s_docs, index, pc, call, ret,
                   calls, first>>

(* analyze_cluster_health that puts its input into the history before the *)
(* outcome of ainvoke is known                                             *)
AnalyzeClusterHealthDoneInputKept(c, raises) ==
    /\ c \in inflight
    /\ c.op = "analyze_cluster_health"
    /\ inflight' = inflight \ {c}
    /\ IF raises
       THEN /\ ret' = [op |-> c.op, call |-> c.id, status |-> "error"]
            /\ chat_history' = Append(chat_history, c.full_input)
       ELSE /\ chat_history' = chat_history \o <<c.full_input, AIMessage(c.id)>>
            /\ ret' = [op |-> c.op, call |-> c.id, status |-> "success",
                       rag_enabled |-> enable_rag]
    /\ UNCHANGED <<now, reranker, hash_seed, agent_pc, enable_rag, rag_engine, kb_manager,
                   started, rag_calls, incidents, solutions, k8s_docs, index, pc, call,
                   calls, first>>

(* analyze_cluster_health, lines 159-188: ainvoke has returned or raised   *)
AnalyzeClusterHealthDone(c, raises) ==
    /\ c \in inflight
    /\ c.op = "analyze_cluster_health"
    /\ inflight' = inflight \ {c}
    /\ IF raises
       THEN /\ ret' = [op |-> c.op, call |-> c.id, status |-> "error"]
            /\ UNCHANGED chat_history
       ELSE /\ chat_history' = chat_history \o <<c.full_input, AIMessage(c.id)>>
            /\ ret' = [op |-> c.op, call |-> c.id, status |-> "success",
                       rag_enabled |-> enable_rag]
    /\ UNCHANGED <<now, reranker, hash_seed, agent_pc, enable_rag, rag_engine, kb_manager,
                   started, rag_calls, incidents, solutions, k8s_docs, index, pc, call,
                   calls, first>>

(* diagnose_issue, lines 190-245 and 284-306                               *)
DiagnoseIssueStart(issue_description, fails) ==
    /\ agent_pc = "ready"
    /\ started < MaxAgentCalls
    /\ started' = started + 1
    /\ LET rag == enable_rag /\ rag_engine # None
           similar_incidents == retrieve_similar_incidents(index, issue_description, 3, fails)
           found_solutions == retrieve_solutions(index, issue_description, 3, fails)
           found_k8s_docs == retrieve(index, issue_description, 2,
                                      [key |-> "doc_type", value |-> "k8s_doc"], fails)
           all_docs == similar_incidents \o found_solutions \o found_k8s_docs
           full_input ==
               HumanMessage(started + 1, "diagnose_issue",
                            IF rag THEN format_retrieved_context(all_docs) ELSE NoContext)
       IN  /\ rag_calls' = IF rag THEN rag_calls + 3 ELSE rag_calls
           /\ inflight' = inflight \cup
                 {Suspended(started + 1, "diagnose_issue",
                            [issue_description |-> issue_description], full_input)}
    /\ UNCHANGED <<now, reranker, hash_seed, agent_pc, enable_rag, rag_engine, kb_manager,
                   chat_history, incidents, solutions, k8s_docs, index, pc, call, ret,
                   calls, first>>

(* diagnose_issue, lines 247-283 and 308-337                               *)
DiagnoseIssueDone(c, raises) ==
    /\ c \in inflight
    /\ c.op = "diagnose_issue"
    /\ inflight' = inflight \ {c}
    /\ IF raises
       THEN /\ ret' = [op |-> c.op, call |-> c.id, status |-> "error"]
            /\ UNCHANGED chat_history
       ELSE /\ chat_history' = chat_history \o <<c.full_input, AIMessage(c.id)>>
            /\ ret' = [op |-> c.op, call |-> c.id, status |-> "success",
                       rag_enabled |-> c.full_input.context # NoContext]
    /\ UNCHANGED <<now, reranker, hash_seed, agent_pc, enable_rag, rag_engine, kb_manager,
                   started, rag_calls, incidents, solutions, k8s_docs, index, pc, call,
                   calls, first>>

(* auto_fix without the test of auto_approve                               *)
AutoFixStartUnchecked(issue, auto_approve, fails) ==
    /\ agent_pc = "ready"
    /\ started < MaxAgentCalls
    /\ started' = started + 1
    /\ LET rag == enable_rag /\ rag_engine # None
           found_solutions == retrieve_solutions(index, issue.description, 3, fails)
           full_input ==
               HumanMessage(started + 1, "auto_fix",
                            IF rag THEN format_retrieved_context(found_solutions)
                            ELSE NoContext)
       IN  /\ rag_calls' = IF rag THEN rag_calls + 1 ELSE rag_calls
           /\ inflight' = inflight \cup
                 {Suspended(started + 1, "auto_fix",
                            [issue |-> issue, auto_approve |-> auto_approve], full_input)}
    /\ UNCHANGED <<now, reranker, hash_seed, agent_pc, enable_rag, rag_engine, kb_manager,
                   chat_history, incidents, solutions, k8s_docs, index, pc, call, ret,
                   calls, first>>

(* auto_fix, lines 339-390: without approval the call returns at once;     *)
(* with it, retrieval in RAG mode, the input, then the call is suspended   *)
AutoFixStart(issue, auto_approve, fails) ==
    /\ agent_pc = "ready"
    /\ IF ~auto_approve
       THEN /\ ret' = [op |-> "auto_fix", status |-> "pending_approval",
                       auto_approve |-> auto_approve, issue |-> issue]
            /\ UNCHANGED <<inflight, started, rag_calls>>
       ELSE /\ started < MaxAgentCalls
            /\ started' = started + 1
            /\ LET rag == enable_rag /\ rag_engine # None
                   found_solutions == retrieve_solutions(index, issue.description, 3, fails)
                   full_input ==
                       HumanMessage(started + 1, "auto_fix",
                                    IF rag THEN format_retrieved_context(found_solutions)
                                    ELSE NoContext)
               IN  /\ rag_calls' = IF rag THEN rag_calls + 1 ELSE rag_calls
                   /\ inflight' = inflight \cup
                         {Suspended(started + 1, "auto_fix",
                                    [issue |-> issue, auto_approve |-> auto_approve],
                                    full_input)}
            /\ UNCHANGED ret
    /\ UNCHANGED <<now, reranker, hash_seed, agent_pc, enable_rag, rag_engine, kb_manager,
                   chat_history, incidents, solutions, k8s_docs, index, pc, call, calls,
                   first>>

(* _record_successful_fix, lines 425-442: kb_manager.add_incident with a   *)
(* dict that has neither id nor timestamp; whatever it raises, and the     *)
(* AttributeError of a kb_manager that is None, is caught and logged.      *)
(* The value is what is on file and in the vector store afterwards.        *)
RecordSuccessfulFix(issue, outcome, index_fails) ==
    LET rec == [id |-> GenerateId("INC"), timestamp |-> now,
                description |-> issue.description]
    IN  IF kb_manager = None \/ outcome = "open_fails"
        THEN [incidents |-> incidents, index |-> index]
        ELSE IF outcome = "dump_fails"
        THEN [incidents |-> WriteFile(incidents, rec.id, Corrupt), index |-> index]
        ELSE [incidents |-> WriteFile(incidents, rec.id, JsonDump(rec)),
              index |-> IF index_fails THEN index
                        ELSE add_documents(SetToBag({AddedIncidentDoc(rec)}))]

(* auto_fix, lines 392-423: ainvoke has returned result or raised;         *)
(* status is result.get("status")                                          *)
AutoFixDone(c, raises, status, outcome, index_fails) ==
    /\ c \in inflight
    /\ c.op = "auto_fix"
    /\ inflight' = inflight \ {c}
    /\ IF raises
       THEN /\ ret' = [op |-> c.op, call |-> c.id, status |-> "error"]
            /\ UNCHANGED <<chat_history, incidents, index>>
       ELSE /\ chat_history' = chat_history \o <<c.full_input, AIMessage(c.id)>>
            /\ IF enable_rag /\ status = "success"
               THEN LET recorded == RecordSuccessfulFix(c.args.issue, outcome, index_fails)
                    IN  /\ incidents' = recorded.incidents
                        /\ index' = recorded.index
               ELSE UNCHANGED <<incidents, index>>
            /\ ret' = [op |-> c.op, call |-> c.id, status |-> "success",
                       rag_enabled |-> enable_rag]
    /\ UNCHANGED <<now, reranker, hash_seed, agent_pc, enable_rag, rag_engine, kb_manager,
                   started, rag_calls, solutions, k8s_docs, pc, call, calls, first>>

(* search_knowledge, lines 444-472                                         *)
SearchKnowledge(query, k, fails) ==
    /\ agent_pc = "ready"
    /\ started < MaxAgentCalls
    /\ started' = started + 1
    /\ IF ~enable_rag \/ kb_manager = None
       THEN /\ ret' = [op |-> "search_knowledge", status |-> "error"]
            /\ UNCHANGED rag_calls
       ELSE LET docs == search_knowledge_base(index, query, k, fails)
            IN  /\ ret' = [op |-> "search_knowledge", status |-> "success",
                           results |-> docs, count |-> Len(docs)]
                /\ rag_calls' = rag_calls + 1
    /\ UNCHANGED <<now, reranker, hash_seed, agent_pc, enable_rag, rag_engine, kb_manager,
                   chat_history, inflight, incidents, solutions, k8s_docs, index, pc, call,
                   calls, first>>

Issues == [description : Descriptions]

(* The agent: it is constructed, then the routes and the periodic health   *)
(* check call it                                                           *)
NextAgent ==
    \/ \E enable, has_config, engine_ok, manager_ok \in BOOLEAN :
          Construct(enable, has_config, engine_ok, manager_ok)
    \/ ConstructInitialize
    \/ ConstructDone
    \/ \E fails \in BOOLEAN : AnalyzeClusterHealthStart(fails)
    \/ \E c \in inflight, raises \in BOOLEAN : AnalyzeClusterHealthDone(c, raises)
    \/ \E issue_description \in Descriptions, fails \in BOOLEAN :
          DiagnoseIssueStart(issue_description, fails)
    \/ \E c \in inflight, raises \in BOOLEAN : DiagnoseIssueDone(c, raises)
    \/ \E issue \in Issues, auto_approve \in BOOLEAN, fails \in BOOLEAN :
          AutoFixStart(issue, auto_approve, fails)
    \/ \E c \in inflight, raises \in BOOLEAN, status \in ResultStatuses,
          outcome \in PersistOutcomes, index_fails \in BOOLEAN :
          AutoFixDone(c, raises, status, outcome, index_fails)
    \/ \E query \in Queries, fails \in {[i \in 1..3 |-> FALSE], [i \in 1..3 |-> TRUE]} :
          SearchKnowledge(query, 5, fails)

(* The service starts over the files of an earlier run                    *)
InitAgent == Init /\ ~reranker /\ hash_seed = 0 /\ incidents = PastIncidents

SpecAgent == InitAgent /\ [][NextAgent]_vars

----------------------------------------------------------------------------
(* Claims *)

Min(a, b) == IF a < b THEN a ELSE b

(* C1: hybrid_retrieve(query, k) returns at most min(k, 5) documents, for *)
(* every query, every k >= 0, every index content, re-ranker on or off.   *)
C1_HybridAtMostMinK5 ==
    (pc = "retrieved" /\ ret.op = "hybrid_retrieve")
        => Len(ret.docs) <= Min(ret.k, 5)

(* C2: retrieve(query, k, filter) returns at most k documents, with the   *)
(* re-ranker enabled or disabled.                                         *)
C2_RetrieveAtMostK ==
    (pc = "retrieved" /\ ret.op = "retrieve")
        => Len(ret.docs) <= ret.k

(* C3: retrieve_by_category(query, category, k) is retrieve with the      *)
(* filter {doc_type: category}: every document returned has that doc_type *)
(* and the documents indexed with that doc_type are the ones eligible.    *)
C3_ByCategoryFiltersDocType ==
    (pc = "retrieved" /\ ret.op = "retrieve_by_category")
        => /\ ret.docs = retrieve(index, ret.query, ret.k,
                                  [key |-> "doc_type", value |-> ret.category], ret.fails)
           /\ \A i \in 1..Len(ret.docs) : ret.docs[i].metadata.doc_type = ret.category

(* C4: when the durable write of add_incident / add_solution has been     *)
(* made and the index write then fails, the failure is not propagated:    *)
(* the call returns the record id.                                        *)
C4_IndexFailureNotPropagated ==
    (pc = "idle" /\ ret.op \in {"add_incident", "add_solution"} /\ ret.stage = "index")
        => (ret.status = "returned" /\ ret.id = ret.record.id)

(* C5: once add_incident(r) has returned, incidents/<id>.json holds r     *)
(* with its id; the file also holds r when the index write failed.        *)
C5_ReturnedIncidentIsDurable ==
    (pc = "idle" /\ ret.op = "add_incident" /\ ret.stage \in {"done", "index"})
        => /\ ret.stage = "done" => (ret.status = "returned" /\ ret.id = ret.record.id)
           /\ ret.record.id \in DOMAIN incidents
           /\ JsonLoad(incidents[ret.record.id]) = ret.record

C5_Witness ==
    /\ pc = "idle" /\ ret.op = "add_incident" /\ ret.status = "returned"
    /\ ret.id \in DOMAIN incidents

(* The entries of the vector store that render an incident or a solution  *)
(* record, and the record file such an entry names                        *)
IsIncidentEntry(e) == e.metadata.doc_type = "incident" /\ "incident_id" \in DOMAIN e.metadata
IsSolutionEntry(e) == e.metadata.doc_type = "solution" /\ "solution_id" \in DOMAIN e.metadata

RendersStored(e) ==
    /\ IsIncidentEntry(e) =>
          /\ e.metadata.incident_id \in Readable(incidents)
          /\ e.page_content = FormatIncident(JsonLoad(incidents[e.metadata.incident_id]))
    /\ IsSolutionEntry(e) =>
          /\ e.metadata.solution_id \in Readable(solutions)
          /\ e.page_content = FormatSolution(JsonLoad(solutions[e.metadata.solution_id]))

Copies(B, e) == IF e \in BagToSet(B) THEN B[e] ELSE 0

(* C6: durability precedes searchability.  Every incident or solution     *)
(* entry of the vector store names a record file that exists, the record  *)
(* of an add_* call between its two writes is already in its file, and    *)
(* every step that puts such an entry into the vector store finds the     *)
(* record it renders in durable storage as the step begins.               *)
C6_DurableBeforeIndexed ==
    /\ [](\A e \in BagToSet(index) :
            /\ IsIncidentEntry(e) => e.metadata.incident_id \in DOMAIN incidents
            /\ IsSolutionEntry(e) => e.metadata.solution_id \in DOMAIN solutions)
    /\ [](/\ pc = "add_incident_index" =>
                (call.record.id \in DOMAIN incidents /\ JsonLoad(incidents[call.record.id]) = call.record)
          /\ pc = "add_solution_index" =>
                (call.record.id \in DOMAIN solutions /\ JsonLoad(solutions[call.record.id]) = call.record))
    /\ [][\A e \in BagToSet(index') :
            Copies(index', e) > Copies(index, e) => RendersStored(e)]_vars

C6_Witness ==
    /\ pc = "idle" /\ ret.op = "add_solution" /\ ret.status = "returned"
    /\ \E e \in BagToSet(index) : IsSolutionEntry(e) /\ e.metadata.solution_id = ret.id
    /\ \E e \in BagToSet(index) : IsIncidentEntry(e) /\ "source" \in DOMAIN e.metadata

(* C7: when the durable write of add_incident / add_solution fails, the   *)
(* error is propagated, no id is returned and the vector store is left    *)
(* unchanged.                                                             *)
C7_PersistFailurePropagates ==
    [][(/\ pc = "idle" /\ calls' = calls + 1
        /\ \/ pc' \in {"add_incident_index", "add_solution_index"}
           \/ pc' = "idle" /\ ret'.op \in {"add_incident", "add_solution"})
          => \/ /\ pc' = "add_incident_index"
                /\ call'.record.id \in DOMAIN incidents'
                /\ JsonLoad(incidents'[call'.record.id]) = call'.record
                /\ index' = index
             \/ /\ pc' = "add_solution_index"
                /\ call'.record.id \in DOMAIN solutions'
                /\ JsonLoad(solutions'[call'.record.id]) = call'.record
                /\ index' = index
             \/ /\ pc' = "idle"
                /\ ret'.op \in {"add_incident", "add_solution"}
                /\ ret'.status = "raised"
                /\ ret'.id = NoId
                /\ index' = index]_vars

C7_Witness ==
    /\ pc = "idle" /\ ret.op = "add_solution" /\ ret.status = "raised" /\ ret.stage = "persist"
    /\ ret.record.id \notin DOMAIN solutions
    /\ index # EmptyBag

(* C8: after any sequence of completed add_incident / add_solution calls, *)
(* calls that reuse an id included, every incident or solution entry of   *)
(* the vector store is the rendering of the record now stored under its   *)
(* id.                                                                    *)
C8_IndexRendersStoredRecord ==
    (/\ pc = "idle"
     /\ Readable(incidents) = DOMAIN incidents
     /\ Readable(solutions) = DOMAIN solutions)
        => \A e \in BagToSet(index) : RendersStored(e)

(* C9: two add_solution calls whose records carry no id return two        *)
(* distinct ids, and afterwards each record is in the file of its id      *)
(* (the calls may fall into the same clock second).                       *)
C9_GeneratedSolutionIdsDistinct ==
    [][(/\ pc = "add_solution_index"
        /\ ret.op = "add_solution" /\ ret.status = "returned" /\ ret.given = NoId
        /\ ret'.op = "add_solution" /\ ret'.status = "returned" /\ ret'.given = NoId
        /\ ret.record.problem_type = ret'.record.problem_type)
          => /\ ret'.id # ret.id
             /\ ret.id \in DOMAIN solutions' /\ JsonLoad(solutions'[ret.id]) = ret.record
             /\ ret'.id \in DOMAIN solutions' /\ JsonLoad(solutions'[ret'.id]) = ret'.record]_vars

(* What one initialize_knowledge_base adds to the vector store            *)
InitializeDocs ==
    SetToBag({K8sDoc(n) : n \in k8s_docs}) (+) SetToBag(BestPracticeDocs)
        (+) SetToBag(IncidentDocs) (+) SetToBag(SolutionDocs)

RECURSIVE Times(_, _)
Times(n, B) == IF n = 0 THEN EmptyBag ELSE B (+) Times(n - 1, B)

Contents(docs) == [i \in 1..Len(docs) |-> docs[i].page_content]

(* C10: with durable storage unchanged, hybrid_retrieve(query, k) gives   *)
(* the same sequence of contents after initialize has run n >= 2 times as *)
(* after it has run once.                                                 *)
C10_InitializeIdempotent ==
    (/\ pc = "retrieved" /\ ret.op = "hybrid_retrieve"
     /\ first.set
     /\ incidents = first.incidents /\ solutions = first.solutions
     /\ \E n \in 1..MaxCalls : index = first.index (+) Times(n, InitializeDocs))
        => Contents(ret.docs)
             = Contents(hybrid_retrieve(first.index, ret.query, ret.k, ret.fails))

RetrieveOps ==
    {"retrieve", "retrieve_by_category", "retrieve_similar_incidents",
     "retrieve_solutions", "retrieve_best_practices"}

(* C12: when the embedding provider, the vector store or the re-ranker    *)
(* fails during retrieve, retrieve_similar_incidents, retrieve_solutions, *)
(* retrieve_best_practices or retrieve_by_category, the operation returns *)
(* an empty list and does not raise.                                      *)
C12_RetrievalFailureGivesEmptyList ==
    (pc = "retrieved" /\ ret.op \in RetrieveOps /\ ret.fails)
        => (ret.status = "returned" /\ ret.docs = <<>>)

(* the failure hides documents a working retrieval returns                *)
C12_Witness ==
    /\ pc = "retrieved" /\ ret.op = "retrieve_solutions" /\ ret.fails
    /\ ret.docs = <<>>
    /\ retrieve_solutions(index, ret.query, ret.k, FALSE) # <<>>

(* What the sub-queries that did not fail return, in category order       *)
SucceededSubResults(store, q, fails) ==
    (IF fails[1] THEN <<>> ELSE retrieve_similar_incidents(store, q, 2, FALSE))
        \o (IF fails[2] THEN <<>> ELSE retrieve_solutions(store, q, 2, FALSE))
        \o (IF fails[3] THEN <<>> ELSE retrieve_best_practices(store, q, 1, FALSE))

(* C13: in hybrid_retrieve a failing sub-query does not suppress the      *)
(* others: whichever of the three sub-queries fail, the result is the     *)
(* deduplicated concatenation, cut to k, of the results of those that     *)
(* succeeded, in category order.                                          *)
C13_HybridKeepsSucceededSubQueries ==
    (pc = "retrieved" /\ ret.op = "hybrid_retrieve")
        => /\ ret.status = "returned"
           /\ ret.docs = Take(deduplicate_documents(
                                 SucceededSubResults(index, ret.query, ret.fails)), ret.k)

(* the incident sub-query failed although incidents are indexed, and the  *)
(* result holds a solution and a best practice                            *)
C13_Witness ==
    /\ pc = "retrieved" /\ ret.op = "hybrid_retrieve"
    /\ ret.fails = <<TRUE, FALSE, FALSE>>
    /\ retrieve_similar_incidents(index, ret.query, 2, FALSE) # <<>>
    /\ \E i, j \in 1..Len(ret.docs) :
          /\ ret.docs[i].metadata.doc_type = "solution"
          /\ ret.docs[j].metadata.doc_type = "best_practice"

(* The documents of docs whose content no earlier document of docs has,   *)
(* in the order of docs                                                   *)
FirstOccurrences(docs) ==
    LET keep == {i \in 1..Len(docs) :
                    \A j \in 1..(i - 1) : docs[j].page_content # docs[i].page_content}
        RECURSIVE Pick(_)
        Pick(i) == IF i > Len(docs) THEN <<>>
                   ELSE (IF i \in keep THEN <<docs[i]>> ELSE <<>>) \o Pick(i + 1)
    IN  Pick(1)

(* C14: deduplication in hybrid_retrieve drops a document if and only if  *)
(* an earlier document of the merged list has identical content: first    *)
(* occurrences are kept in their order, documents with different content  *)
(* are never merged, and the result holds no two documents with the same  *)
(* content, whatever duplicates the vector store holds.                   *)
C14_DedupDropsExactlyRepeatedContent ==
    (pc = "retrieved" /\ ret.op = "hybrid_retrieve")
        => /\ ret.docs = Take(FirstOccurrences(HybridResults(index, ret.query, ret.fails)),
                              ret.k)
           /\ \A i, j \in 1..Len(ret.docs) :
                 ret.docs[i].page_content = ret.docs[j].page_content => i = j

(* C15: deduplication is idempotent on the output of hybrid_retrieve:     *)
(* _deduplicate_documents applied to a returned list gives that list,     *)
(* same documents in the same order.                                      *)
C15_DedupIdempotentOnHybridOutput ==
    (pc = "retrieved" /\ ret.op = "hybrid_retrieve")
        => deduplicate_documents(ret.docs) = ret.docs

(* a result of several documents from which deduplication had removed     *)
(* something                                                              *)
C15_Witness ==
    /\ pc = "retrieved" /\ ret.op = "hybrid_retrieve"
    /\ Len(ret.docs) >= 2
    /\ Len(HybridResults(index, ret.query, ret.fails))
          > Len(deduplicate_documents(HybridResults(index, ret.query, ret.fails)))

CategoryRank(doc) ==
    CASE doc.metadata.doc_type = "incident" -> 1
      [] doc.metadata.doc_type = "solution" -> 2
      [] doc.metadata.doc_type = "best_practice" -> 3
      [] OTHER -> 4

InCategoryOrder(docs) ==
    \A i, j \in 1..Len(docs) :
        i < j => (CategoryRank(docs[i]) <= CategoryRank(docs[j]) /\ CategoryRank(docs[j]) <= 3)

(* C16: in the result of hybrid_retrieve, before and after the cut to k,  *)
(* every incident precedes every solution and every solution precedes     *)
(* every best practice; the sub-queries are made with the budgets 2, 2    *)
(* and 1 whatever k is, so k only cuts the merged list.                   *)
C16_HybridCategoryOrderFixedBudgets ==
    (pc = "retrieved" /\ ret.op = "hybrid_retrieve")
        => LET merged == deduplicate_documents(
                             SucceededSubResults(index, ret.query, ret.fails))
           IN  /\ InCategoryOrder(merged)
               /\ InCategoryOrder(ret.docs)
               /\ \A i \in 1..Len(ret.docs) : CategoryRank(ret.docs[i]) <= 3
               /\ Len(ret.docs) = Min(ret.k, Len(merged))
               /\ \A i \in 1..Len(ret.docs) : ret.docs[i] = merged[i]

(* five documents of all three categories are merged and k = 3 keeps the  *)
(* two incidents and the first solution                                   *)
C16_Witness ==
    /\ pc = "retrieved" /\ ret.op = "hybrid_retrieve" /\ ret.k = 3
    /\ Len(deduplicate_documents(HybridResults(index, ret.query, ret.fails))) = 5
    /\ Len(ret.docs) = 3
    /\ ret.docs[2].metadata.doc_type = "incident"
    /\ ret.docs[3].metadata.doc_type = "solution"

DocTypes == {"incident", "solution", "best_practice", "k8s_doc"}

(* C17: after any sequence of initialize, add_incident, add_solution and  *)
(* upload-document operations, every entry of the vector store carries a  *)
(* doc_type metadata key whose value is one of incident, solution,        *)
(* best_practice, k8s_doc.                                                *)
C17_IndexedDocTypeIsKnown ==
    \A e \in BagToSet(index) :
        /\ "doc_type" \in DOMAIN e.metadata
        /\ e.metadata.doc_type \in DocTypes

(* C18: every document retrieve(query, k, F) returns matches the filter F *)
(* on every key of F, with and without the re-ranker; when fewer than k   *)
(* entries match, all matching entries are returned, and an empty result  *)
(* is returned without an error.                                          *)
C18_RetrieveHonoursFilter ==
    (pc = "retrieved" /\ ret.op = "retrieve")
        => /\ ret.status = "returned"
           /\ \A i \in 1..Len(ret.docs) : Matches(ret.docs[i], ret.filter)
           /\ (~ret.fails /\ BagCardinality(Filtered(index, ret.filter)) < ret.k)
                 => BagOfSeq(ret.docs) = Filtered(index, ret.filter)

SortedBy(mode, q, docs) ==
    \A i, j \in 1..Len(docs) :
        i < j => Score(mode, q, docs[i].page_content) >= Score(mode, q, docs[j].page_content)

(* C19: with the re-ranker configured retrieve asks the vector store for  *)
(* exactly k*2 candidates and passes them through the re-ranker; without  *)
(* it retrieve asks for exactly k candidates, skips the re-rank step and  *)
(* returns them in the similarity order the vector store gave.            *)
C19_CandidatesAndRerankStep ==
    (pc = "retrieved" /\ ret.op = "retrieve" /\ ~ret.fails)
        => IF reranker
           THEN LET candidates == VectorSearch(index, ret.query, ret.k * 2, ret.filter)
                IN  /\ Len(candidates)
                          = Min(ret.k * 2, BagCardinality(Filtered(index, ret.filter)))
                    /\ ret.docs = Rerank(ret.query, candidates)
                    /\ SortedBy("relevance", ret.query, ret.docs)
           ELSE /\ ret.docs = VectorSearch(index, ret.query, ret.k, ret.filter)
                /\ Len(ret.docs) = Min(ret.k, BagCardinality(Filtered(index, ret.filter)))
                /\ SortedBy("similarity", ret.query, ret.docs)

(* the re-ranker got 2k candidates and put them into another order than   *)
(* the vector store's                                                     *)
C19_Witness ==
    /\ pc = "retrieved" /\ ret.op = "retrieve" /\ ~ret.fails /\ reranker
    /\ ret.k = 2
    /\ Len(VectorSearch(index, ret.query, 4, ret.filter)) = 4
    /\ Len(ret.docs) = 4
    /\ ret.docs # VectorSearch(index, ret.query, 4, ret.filter)

(* C20: format_retrieved_context([]) returns the fixed, non-empty         *)
(* no-results sentence, never the empty string and never an error; for a  *)
(* non-empty list it never returns that sentence.                         *)
C20_EmptyListGivesSentinel ==
    (pc = "retrieved" /\ ret.op = "format_retrieved_context")
        => /\ ret.status = "returned"
           /\ ret.context # <<>>
           /\ NoResultsSentinel # <<>>
           /\ (ret.docs = <<>>) <=> (ret.context = NoResultsSentinel)

C20_Witness ==
    /\ pc = "retrieved" /\ ret.op = "format_retrieved_context"
    /\ ret.docs = <<>>
    /\ ret.context = NoResultsSentinel

(* Length of a block and distance between the starts of two blocks       *)
BlockLen == Len(ContextPart(1, [page_content |-> <<>>, metadata |-> <<>>]))
BlockStep == BlockLen + 1

(* C21: for a non-empty list of n documents format_retrieved_context      *)
(* gives exactly n blocks, numbered 1..n in input order; block i holds    *)
(* the doc_type, the source and the content of document i, with the text  *)
(* unknown where the metadata has no doc_type or no source.               *)
C21_OneNumberedBlockPerDocument ==
    (pc = "retrieved" /\ ret.op = "format_retrieved_context" /\ ret.docs # <<>>)
        => LET n == Len(ret.docs)
               at(i, p) == ret.context[(i - 1) * BlockStep + p]
           IN  /\ Len(ret.context) = n * BlockLen + (n - 1)
               /\ Cardinality({p \in 1..Len(ret.context) :
                                  "num" \in DOMAIN ret.context[p]}) = n
               /\ \A i \in 1..n :
                     /\ at(i, 2) = [num |-> i]
                     /\ at(i, 4) = IF "doc_type" \in DOMAIN ret.docs[i].metadata
                                   THEN [lit |-> ret.docs[i].metadata.doc_type]
                                   ELSE [lit |-> "unknown"]
                     /\ at(i, 7) = IF "source" \in DOMAIN ret.docs[i].metadata
                                   THEN [source |-> ret.docs[i].metadata.source]
                                   ELSE [lit |-> "unknown"]
                     /\ at(i, 10) = [content |-> ret.docs[i].page_content]

(* three blocks, the second for a document without doc_type and source,   *)
(* the third for one that has both                                        *)
C21_Witness ==
    /\ pc = "retrieved" /\ ret.op = "format_retrieved_context" /\ Len(ret.docs) = 3
    /\ DOMAIN ret.docs[2].metadata = {"filename"}
    /\ ret.context[BlockStep + 4] = [lit |-> "unknown"]
    /\ ret.context[BlockStep + 7] = [lit |-> "unknown"]
    /\ ret.context[2 * BlockStep + 4] = [lit |-> "best_practice"]
    /\ "source" \in DOMAIN ret.context[2 * BlockStep + 7]

(* Files of dir2 that dir1 does not hold with the same content            *)
Written(dir1, dir2) ==
    {n \in DOMAIN dir2 : n \notin DOMAIN dir1 \/ dir1[n] # dir2[n]}

QueryMatches(q, description) ==
    \A e1, e2 \in {e \in BagToSet(index) : e.metadata.doc_type = "incident"} :
        (e1.page_content.description = description
            /\ e2.page_content.description # description)
          => /\ Score("similarity", q, e1.page_content)
                  > Score("similarity", q, e2.page_content)
             /\ reranker => Score("relevance", q, e1.page_content)
                              > Score("relevance", q, e2.page_content)

(* Descriptions of the records add_incident has stored and indexed; in    *)
(* SpecRetrieve every add_incident call succeeds                          *)
AddedDescriptions ==
    {JsonLoad(incidents[n]).description : n \in Readable(incidents) \ DOMAIN PastIncidents}

Placed(text, chunks, start) ==
    /\ \A i \in 1..Len(chunks) :
          /\ start[i] + Len(chunks[i]) - 1 <= Len(text)
          /\ chunks[i] = SubSeq(text, start[i], start[i] + Len(chunks[i]) - 1)
    /\ \A i \in 1..(Len(chunks) - 1) :
          /\ start[i] <= start[i + 1]
          /\ start[i] + Len(chunks[i]) - start[i + 1] <= ChunkOverlap
          /\ start[i + 1] - (start[i] + Len(chunks[i])) <= ChunkOverlap
    /\ chunks # <<>> =>
          /\ start[1] - 1 <= ChunkOverlap
          /\ Len(text) - (start[Len(chunks)] + Len(chunks[Len(chunks)]) - 1) <= ChunkOverlap

ChunkTexts(chunks) == [i \in 1..Len(chunks) |-> chunks[i].page_content]

(* C24: for every document split with chunk_size S and overlap O every    *)
(* chunk has length <= S, consecutive chunks share at most O characters,  *)
(* the chunks cover the content with no gap larger than O, a document     *)
(* shorter than S gives exactly one chunk with the content unmodified,    *)
(* and empty input gives no chunks.                                       *)
C24_ChunksBoundedOverlappingCovering ==
    (pc = "retrieved" /\ ret.op = "split_documents")
        => /\ ret.docs = <<>> => ret.chunks = <<>>
           /\ ret.docs # <<>> =>
                 LET text == ret.docs[1].page_content
                     chunks == ChunkTexts(ret.chunks)
                 IN  /\ \A i \in 1..Len(chunks) : Len(chunks[i]) <= ChunkSize
                     /\ text = <<>> => chunks = <<>>
                     /\ (text # <<>> /\ Len(text) < ChunkSize) => chunks = <<text>>
                     /\ text # <<>> =>
                           \E start \in [1..Len(chunks) -> 1..Len(text)] :
                               Placed(text, chunks, start)

(* C25: with RAG enabled, every approved auto_fix call whose agent         *)
(* invocation succeeds, so that auto_fix returns status success, has       *)
(* recorded the fix through add_incident before it returns: the incident   *)
(* with the issue's description is on file under the generated id and its  *)
(* rendering has been added to the vector store.                           *)
C25_SuccessfulFixIsRecorded ==
    [][\A c \in inflight :
          (/\ c.op = "auto_fix" /\ c \notin inflight'
           /\ c.args.auto_approve /\ enable_rag
           /\ ret'.op = "auto_fix" /\ ret'.status = "success")
            => LET id == GenerateId("INC")
               IN  /\ id \in Readable(incidents')
                   /\ JsonLoad(incidents'[id]).description = c.args.issue.description
                   /\ LET doc == AddedIncidentDoc(JsonLoad(incidents'[id]))
                      IN  Copies(index', doc) = Copies(index, doc) + 1]_vars

(* C26: auto_fix called with auto_approve false returns status            *)
(* pending_approval and has no effect: no call of the agent is started,   *)
(* no retrieval is made, chat_history is unchanged and nothing is written *)
(* to the knowledge base.                                                  *)
C26_UnapprovedFixHasNoEffect ==
    [][(\/ /\ ret' # ret /\ ret'.op = "auto_fix"
           /\ "auto_approve" \in DOMAIN ret' /\ ~ret'.auto_approve
        \/ \E c \in inflight' \ inflight : c.op = "auto_fix" /\ ~c.args.auto_approve)
          => /\ ret'.op = "auto_fix"
             /\ ret'.status = "pending_approval"
             /\ UNCHANGED <<inflight, rag_calls, chat_history, incidents, solutions,
                            k8s_docs, index, enable_rag, rag_engine, kb_manager>>]_vars

(* the call was refused in RAG mode over a loaded base, after an earlier   *)
(* approved call had gone through                                          *)
C26_Witness ==
    /\ ret.op = "auto_fix" /\ ret.status = "pending_approval"
    /\ enable_rag /\ rag_engine # None
    /\ retrieve_solutions(index, ret.issue.description, 3, FALSE) # <<>>
    /\ \E i \in 1..Len(chat_history) : chat_history[i].role = "human"
                                         /\ chat_history[i].op = "auto_fix"

(* C27: once the agent is constructed enable_rag is true only if           *)
(* rag_engine and kb_manager are both set; when the RAG initialisation     *)
(* fails the construction still ends, with enable_rag false and both       *)
(* handles None; then search_knowledge returns status error without        *)
(* touching the knowledge base, and health check, diagnosis and fix run in *)
(* basic mode.                                                             *)
C27_RagEnabledOnlyWithHandles ==
    /\ [](agent_pc = "ready" =>
            (enable_rag => (rag_engine # None /\ kb_manager # None)))
    /\ [][/\ (agent_pc = "initializing" /\ pc = "idle" /\ ret.op = "initialize"
              /\ ret.status = "raised")
             => (agent_pc' = "ready" /\ ~enable_rag'
                 /\ rag_engine' = None /\ kb_manager' = None)
          /\ (ret' # ret /\ ret'.op = "search_knowledge" /\ ~enable_rag)
             => (ret'.status = "error"
                 /\ UNCHANGED <<rag_calls, incidents, solutions, k8s_docs, index>>)
          /\ (agent_pc = "ready" /\ ~enable_rag)
             => (/\ rag_calls' = rag_calls
                 /\ \A c \in inflight' \ inflight : c.full_input.context = NoContext)]_vars

(* C28: in initialize_knowledge_base a failure local to one category, an   *)
(* unreadable record file or a failed index write for its documents, does  *)
(* not keep the categories after it from being loaded: the step of every   *)
(* category is followed by the step of the next one, and when the last     *)
(* one has indexed its documents every readable solution is in the vector  *)
(* store.                                                                  *)
C28_CategoryFailureLeavesTheOthers ==
    [][/\ (pc = "load_best_practices" /\ pc' # pc) => pc' = "load_incidents"
       /\ (pc = "load_incidents" /\ pc' # pc) => pc' = "load_solutions"
       /\ (pc = "load_solutions" /\ ret'.status = "returned")
             => \A n \in Readable(solutions) : LoadedSolutionDoc(n) \in BagToSet(index')]_vars

(* C29: for every interleaving of analyze_cluster_health, diagnose_issue   *)
(* and auto_fix calls on the one agent chat_history only grows; a call     *)
(* that succeeds appends its own human message immediately followed by its *)
(* AI reply, a call that fails appends nothing, and nothing else appends.  *)
C29_HistoryGrowsByWholeExchanges ==
    [][/\ Len(chat_history') >= Len(chat_history)
       /\ SubSeq(chat_history', 1, Len(chat_history)) = chat_history
       /\ \A c \in inflight \ inflight' :
             IF ret'.status = "success"
             THEN /\ chat_history' = chat_history \o <<c.full_input, AIMessage(c.id)>>
                  /\ c.full_input.role = "human"
                  /\ c.full_input.call = c.id /\ c.full_input.op = c.op
                  /\ ret'.call = c.id
             ELSE /\ ret'.status = "error"
                  /\ chat_history' = chat_history
       /\ inflight \ inflight' = {} => chat_history' = chat_history]_vars

(* two calls overlapped: the one started second finished first and the     *)
(* history holds both exchanges                                            *)
C29_Witness ==
    /\ Len(chat_history) = 4
    /\ chat_history[1].call = 2 /\ chat_history[2] = AIMessage(2)
    /\ chat_history[3].call = 1 /\ chat_history[4] = AIMessage(1)
    /\ chat_history[1].op # chat_history[3].op

(* C30: the content add_incident / add_solution indexes for a record is    *)
(* the content initialize renders for the same record read back from its   *)
(* file, so the entry of the add and the entry of a later initialize are   *)
(* collapsed into one by the deduplication of hybrid_retrieve.             *)
C30_AddedAndReloadedContentAgree ==
    [][/\ (pc = "add_incident_index" /\ pc' = "idle" /\ ret'.status = "returned")
          => LET added == AddedIncidentDoc(call.record)
                 loaded == LoadedIncidentDoc(call.record.id)
             IN  /\ call.record.id \in Readable(incidents)
                 /\ Copies(index', added) = Copies(index, added) + 1
                 /\ added.page_content = loaded.page_content
                 /\ deduplicate_documents(<<added, loaded>>) = <<added>>
                 /\ deduplicate_documents(<<loaded, added>>) = <<loaded>>
       /\ (pc = "add_solution_index" /\ pc' = "idle" /\ ret'.status = "returned")
          => LET added == AddedSolutionDoc(call.record)
                 loaded == LoadedSolutionDoc(call.record.id)
             IN  /\ call.record.id \in Readable(solutions)
                 /\ Copies(index', added) = Copies(index, added) + 1
                 /\ added.page_content = loaded.page_content
                 /\ deduplicate_documents(<<added, loaded>>) = <<added>>
                 /\ deduplicate_documents(<<loaded, added>>) = <<loaded>>]_vars

(* the vector store holds the entry of an add_incident and the entry a     *)
(* later initialize made of the same record, with the same content         *)
C30_Witness ==
    /\ pc = "idle" /\ ret.op = "initialize" /\ ret.status = "returned"
    /\ \E e1, e2 \in BagToSet(index) :
          /\ IsIncidentEntry(e1) /\ "source" \notin DOMAIN e1.metadata
          /\ IsIncidentEntry(e2) /\ "source" \in DOMAIN e2.metadata
          /\ e1.metadata.incident_id = e2.metadata.incident_id
          /\ e1.page_content = e2.page_content
          /\ deduplicate_documents(<<e1, e2>>) = <<e1>>

====
